---- MODULE Spec2Model ----
(***************************************************************************)
(* Model of the meeting scheduling chatbot (src/app3.py): one run of       *)
(* main() over DatabaseConnection, ClientManager, NameExtractor and        *)
(* OllamaClient.  Python strings are TLA+ strings; Python's None and       *)
(* optional strings are tagged records (PyNone, PyStr).                    *)
(***************************************************************************)
EXTENDS Integers, Sequences, FiniteSets, TLC

(***************************************************************************)
(* Python values                                                           *)
(***************************************************************************)
PyNone == [tag |-> "None"]

PyStr(s) == [tag |-> "str", val |-> s]

IsNone(v) == v.tag = "None"

\* how a call ends: it returns a value or raises an exception to its caller
Ret(v) == [tag |-> "return", val |-> v]

Raise(type) == [tag |-> "raise", val |-> type]

\* s[i] of a Python string, 1-based
Char(s, i) == SubSeq(s, i, i)

UpperAlpha == "ABCDEFGHIJKLMNOPQRSTUVWXYZ"

LowerAlpha == "abcdefghijklmnopqrstuvwxyz"

AlphaIdx == 1..Len(UpperAlpha)

\* str.lower() on one character
LowerChar(c) ==
    IF \E i \in AlphaIdx : Char(UpperAlpha, i) = c
    THEN Char(LowerAlpha, CHOOSE i \in AlphaIdx : Char(UpperAlpha, i) = c)
    ELSE c

RECURSIVE lower(_)
\* str.lower()
lower(s) == IF s = "" THEN "" ELSE LowerChar(Char(s, 1)) \o lower(SubSeq(s, 2, Len(s)))

IsSpace(c) == c \in {" ", "\t", "\n", "\r"}

RECURSIVE lstrip(_)
lstrip(s) == IF s # "" /\ IsSpace(Char(s, 1)) THEN lstrip(SubSeq(s, 2, Len(s))) ELSE s

RECURSIVE rstrip(_)
rstrip(s) ==
    IF s # "" /\ IsSpace(Char(s, Len(s))) THEN rstrip(SubSeq(s, 1, Len(s) - 1)) ELSE s

\* str.strip()
strip(s) == lstrip(rstrip(s))

\* e in s  (substring test)
Contains(s, e) == \E i \in 1..(Len(s) - Len(e) + 1) : SubSeq(s, i, i + Len(e) - 1) = e

(***************************************************************************)
(* fuzz.ratio (fuzzywuzzy over difflib.SequenceMatcher, no junk): the      *)
(* Ratcliff/Obershelp count of matching characters M, then                 *)
(* int(round(100 * 2M / (len(a) + len(b)))).                               *)
(***************************************************************************)
RECURSIVE RunLen(_, _, _, _, _, _)
\* length of the common run of a[i..ahi] and b[j..bhi] starting at i and j
RunLen(a, b, i, j, ahi, bhi) ==
    IF i > ahi \/ j > bhi \/ Char(a, i) # Char(b, j)
    THEN 0
    ELSE 1 + RunLen(a, b, i + 1, j + 1, ahi, bhi)

\* SequenceMatcher.find_longest_match: the longest block, earliest in a, then
\* earliest in b; <<i, j, k>> with k = 0 when nothing matches
find_longest_match(a, b, alo, ahi, blo, bhi) ==
    LET cells == (alo..ahi) \X (blo..bhi)
        k == IF cells = {} THEN 0
             ELSE CHOOSE n \in 0..(ahi - alo + 1) :
                    /\ \E c \in cells : RunLen(a, b, c[1], c[2], ahi, bhi) = n
                    /\ \A c \in cells : RunLen(a, b, c[1], c[2], ahi, bhi) <= n
        best == {c \in cells : RunLen(a, b, c[1], c[2], ahi, bhi) = k}
        i == CHOOSE x \in alo..ahi :
                /\ \E c \in best : c[1] = x
                /\ \A c \in best : c[1] >= x
        j == CHOOSE y \in blo..bhi :
                /\ <<i, y>> \in best
                /\ \A c \in best : c[1] = i => c[2] >= y
    IN  IF k = 0 THEN <<alo, blo, 0>> ELSE <<i, j, k>>

RECURSIVE MatchCount(_, _, _, _, _, _)
\* sum of the sizes of SequenceMatcher.get_matching_blocks
MatchCount(a, b, alo, ahi, blo, bhi) ==
    IF alo > ahi \/ blo > bhi
    THEN 0
    ELSE LET m == find_longest_match(a, b, alo, ahi, blo, bhi)
         IN  IF m[3] = 0
             THEN 0
             ELSE m[3]
                  + MatchCount(a, b, alo, m[1] - 1, blo, m[2] - 1)
                  + MatchCount(a, b, m[1] + m[3], ahi, m[2] + m[3], bhi)

\* int(round(num / den)), Python 3 rounding (ties to even)
RoundDiv(num, den) ==
    LET q == num \div den
        r == num % den
    IN  IF 2 * r < den THEN q
        ELSE IF 2 * r > den THEN q + 1
        ELSE IF q % 2 = 0 THEN q ELSE q + 1

\* fuzz.ratio(s1, s2)
ratio(s1, s2) ==
    IF s1 = s2 THEN 100
    ELSE IF s1 = "" \/ s2 = "" THEN 0
    ELSE RoundDiv(200 * MatchCount(s1, s2, 1, Len(s1), 1, Len(s2)), Len(s1) + Len(s2))


(***************************************************************************)
(* Program constants and input pools                                       *)
(***************************************************************************)
MatchThreshold == 90

max_retries == 3

retry_delay == 1

\* number of client records the store holds at most
MaxStore == 2

models_to_try == <<"gemma:2b", "llama2", "mistral">>

\* model names the endpoint may list under /api/tags
ModelNames == {"gemma:2b", "llama2", "mistral", "llama2:latest"}

\* documents of the clients collection: {name, email}, email possibly null
ClientPool ==
    { [name |-> "John Smith",  email |-> PyStr("john@x.com")],
      [name |-> "John Smyth",  email |-> PyStr("smyth@x.com")],
      [name |-> "john smiths", email |-> PyStr("js@y.org")],
      [name |-> "JOHN SMITHE", email |-> PyNone] }

Stores == UNION { [1..n -> ClientPool] : n \in 0..MaxStore }

Ent(label, text) == [label |-> label, text |-> text]

\* prompts with the entities the NER model detects in them
Prompts ==
    { [text |-> "", ents |-> <<>>],
      [text |-> "Schedule a meeting with John Smith tomorrow",
       ents |-> <<Ent("PERSON", "John Smith"), Ent("DATE", "tomorrow")>>],
      [text |-> "Schedule something tomorrow",
       ents |-> <<Ent("DATE", "tomorrow")>>],
      [text |-> "Acme wants R2D2 to meet John Smyth",
       ents |-> <<Ent("ORG", "Acme"), Ent("PERSON", "R2D2"), Ent("PERSON", " John Smyth\n")>>] }

\* message.content of a 200 response of /api/chat
Contents == {"Certainly, I will schedule that meeting.", ""}

\* number of entities the NER model detects in one prompt at most
MaxEnts == 3

\* entities the NER model may detect
EntPool ==
    { Ent("PERSON", "John Smith"),
      Ent("PERSON", " Mary O'Neil-Roe\n"),
      Ent("PERSON", "Ann\nLee"),
      Ent("PERSON", "R2D2"),
      Ent("PERSON", " "),
      Ent("ORG", "Acme"),
      Ent("DATE", "tomorrow") }

\* prompts by the entities detected in them
EntPrompts ==
    { [text |-> "Set up a meeting", ents |-> e] :
        e \in UNION { [1..n -> EntPool] : n \in 0..MaxEnts } }

\* what one POST /api/chat can do
PostOutcomes ==
    { [kind |-> "ok", content |-> c] : c \in Contents }
    \cup { [kind |-> k, content |-> ""] :
             k \in {"bad_body", "http_error", "timeout", "connection_error"} }

(***************************************************************************)
(* DatabaseConnection                                                      *)
(***************************************************************************)
\* connect() returning self.db although server_info raised
connect_unverified(outcome) ==
    [ client  |-> IF outcome = "client_error" THEN "absent" ELSE "open",
      db      |-> IF outcome = "client_error" THEN "None" ELSE "db",
      report  |-> IF outcome = "ok" THEN <<>>
                  ELSE <<[kind |-> "error", text |-> "Database connection error"]>> ]

\* connect(): outcome "ok", "client_error" (MongoClient raises) or
\* "server_error" (server_info raises)
connect(outcome) ==
    [ client  |-> IF outcome = "client_error" THEN "absent" ELSE "open",
      db      |-> IF outcome = "ok" THEN "db" ELSE "None",
      report  |-> IF outcome = "ok" THEN <<>>
                  ELSE <<[kind |-> "error", text |-> "Database connection error"]>> ]

\* close()
close(client) == IF client = "open" THEN "closed" ELSE client

(***************************************************************************)
(* ClientManager                                                           *)
(***************************************************************************)
NotFound == [exists |-> FALSE, email |-> PyNone]

Score(client, client_name) == ratio(lower(client.name), lower(client_name))

RECURSIVE PyMaxFrom(_, _, _, _)
\* max(..., key=score): the first element with the largest key
PyMaxFrom(clients, client_name, i, best) ==
    IF i > Len(clients) THEN best
    ELSE PyMaxFrom(clients, client_name, i + 1,
                   IF Score(clients[i], client_name) > Score(clients[best], client_name)
                   THEN i ELSE best)

\* max replaced by a scan that keeps the last of the best records
best_match_last(clients, client_name) ==
    CHOOSE i \in 1..Len(clients) :
        /\ \A j \in 1..Len(clients) : Score(clients[j], client_name) <= Score(clients[i], client_name)
        /\ \A j \in (i + 1)..Len(clients) : Score(clients[j], client_name) < Score(clients[i], client_name)

best_match(clients, client_name) == PyMaxFrom(clients, client_name, 2, 1)

\* check_client accepting a best score equal to the threshold
check_client_ge(collection, client_name, find_raises) ==
    IF client_name = "" \/ find_raises \/ collection = <<>> THEN Ret(NotFound)
    ELSE LET b == PyMaxFrom(collection, client_name, 2, 1)
         IN  IF Score(collection[b], client_name) >= MatchThreshold
             THEN Ret([exists |-> TRUE, email |-> collection[b].email])
             ELSE Ret(NotFound)

\* check_client without its except clause
check_client_nocatch(collection, client_name, find_raises) ==
    IF client_name = "" THEN Ret(NotFound)
    ELSE IF find_raises THEN Raise("PyMongoError")
    ELSE IF collection = <<>> THEN Ret(NotFound)
    ELSE LET b == PyMaxFrom(collection, client_name, 2, 1)
         IN  IF Score(collection[b], client_name) > MatchThreshold
             THEN Ret([exists |-> TRUE, email |-> collection[b].email])
             ELSE Ret(NotFound)

\* check_client: find_raises is the data store failing during find()
check_client(collection, client_name, find_raises) ==
    IF client_name = "" THEN Ret(NotFound)
    ELSE IF find_raises THEN Ret(NotFound)
    ELSE IF collection = <<>> THEN Ret(NotFound)
    ELSE LET b == best_match(collection, client_name)
         IN  IF Score(collection[b], client_name) > MatchThreshold
             THEN Ret([exists |-> TRUE, email |-> collection[b].email])
             ELSE Ret(NotFound)

(***************************************************************************)
(* NameExtractor                                                           *)
(***************************************************************************)
NameChars == "abcdefghijklmnopqrstuvwxyzABCDEFGHIJKLMNOPQRSTUVWXYZ'-"

\* re.match(r"^[a-zA-Z\s'-]+$", name) on a stripped name
NameMatch(name) ==
    /\ name # ""
    /\ \A i \in 1..Len(name) : IsSpace(Char(name, i)) \/ Contains(NameChars, Char(name, i))

\* the scan without the format check: the first PERSON entity, whatever its text
ScanEnts_anyperson(ents, i) ==
    IF \E j \in i..Len(ents) : ents[j].label = "PERSON"
    THEN strip(ents[CHOOSE j \in i..Len(ents) :
                       /\ ents[j].label = "PERSON"
                       /\ \A k \in i..Len(ents) : ents[k].label = "PERSON" => k >= j].text)
    ELSE ""

RECURSIVE ScanEnts(_, _)
\* for ent in doc.ents: the stripped text of the first PERSON entity that
\* matches the pattern, "" when there is none
ScanEnts(ents, i) ==
    IF i > Len(ents) THEN ""
    ELSE IF ents[i].label = "PERSON" /\ NameMatch(strip(ents[i].text))
         THEN strip(ents[i].text)
         ELSE ScanEnts(ents, i + 1)

\* NameExtractor(): spacy.load raising OSError is reported and re-raised
name_extractor_init(load_ok) == IF load_ok THEN Ret("nlp") ELSE Raise("OSError")

\* extract_person_name(text)["client_name"]; nlp_raises is the NER call failing
extract_person_name(prompt, nlp_raises) ==
    IF nlp_raises THEN Ret("") ELSE Ret(ScanEnts(prompt.ents, 1))

(***************************************************************************)
(* OllamaClient                                                            *)
(***************************************************************************)
\* get_available_models: tags is the set listed by a 200 response, or the
\* call fails
get_available_models(ok, tags) == IF ok THEN tags ELSE {}

\* f"{v}" of an optional string
PyFormat(v) == IF IsNone(v) THEN "None" ELSE v.val

\* the system prompt of generate_response; str + None raises TypeError
system_prompt_of(client_info) ==
    IF client_info.exists
    THEN IF IsNone(client_info.email)
         THEN Raise("TypeError")
         ELSE Ret("You are a helpful meeting scheduling assistant. "
                    \o "The person mentioned is a registered client with email: "
                    \o client_info.email.val
                    \o " Please provide a professional and courteous response regarding their meeting request.")
    ELSE Ret("You are a helpful meeting scheduling assistant. "
               \o "The person mentioned is not found in our client database."
               \o " Please provide a professional and courteous response regarding their meeting request.")

RegisterText ==
    "I notice you're not in our client database. "
    \o "While I'm experiencing some technical difficulties, "
    \o "you can register as a new client through our website or contact our support team for assistance."

generate_fallback_response(client_info) ==
    IF client_info.exists
    THEN "I see that you're a registered client with email: "
         \o PyFormat(client_info.email) \o ". "
         \o "I apologize, but I'm currently experiencing some technical difficulties. "
         \o "Please try again later or contact our support team directly for immediate assistance."
    ELSE RegisterText

\* the text the endpoint delivered: message.content of a well-formed 200
\* response, PyNone for any other outcome
Reply(outcome) == IF outcome.kind = "ok" THEN PyStr(outcome.content) ELSE PyNone

\* a POST that makes generate_response return
PostSucceeds(outcome) == outcome.kind = "ok"

(***************************************************************************)
(* State of one run of main()                                              *)
(***************************************************************************)
VARIABLES
    pc,                \* position in main()
    store,             \* documents of the clients collection
    client,            \* DatabaseConnection.client: "absent", "open", "closed"
    db,                \* db of main: "None" or "db"
    available_models,  \* OllamaClient.available_models
    user_prompt,       \* the submitted prompt
    client_name,       \* main's client_name
    client_info,       \* main's client_info, PyNone before the lookup
    gen_info,          \* the client_info argument of generate_response
    system_prompt,     \* generate_response's system prompt
    model_idx,         \* index into models_to_try of the for loop
    attempt,           \* attempt of the inner for loop
    posts,             \* POST /api/chat calls made, in order
    sleeps,            \* seconds spent in time.sleep(retry_delay)
    response,          \* main's response, PyNone before generate_response returns
    ui,                \* what streamlit has shown
    log,               \* logger.error records of the components
    calls,             \* component methods main has invoked
    raised,            \* exceptions that reached main's except clause
    app2               \* the run of main() of the function-calling variant (src/app2.py)

app3Vars == <<pc, store, client, db, available_models, user_prompt, client_name,
              client_info, gen_info, system_prompt, model_idx, attempt, posts,
              sleeps, response, ui, log, calls, raised>>

vars == <<app3Vars, app2>>

\* app2.py's main before the button is pressed
App2Idle ==
    [ pc              |-> "idle",
      user_email      |-> "",
      client_name     |-> "",
      client_info     |-> PyNone,
      meeting_details |-> PyNone,
      tools           |-> <<>>,
      ui              |-> <<>>,
      raised          |-> <<>> ]

genVars == <<gen_info, system_prompt, model_idx, attempt, posts, sleeps, response>>

reqVars == <<user_prompt, client_name, client_info>>

Show(kind, text) == [kind |-> kind, text |-> text]

Init ==
    /\ pc = "connect"
    /\ store \in Stores
    /\ client = "absent"
    /\ db = "None"
    /\ available_models = {}
    /\ user_prompt = [text |-> "", ents |-> <<>>]
    /\ client_name = ""
    /\ client_info = PyNone
    /\ gen_info = PyNone
    /\ system_prompt = PyNone
    /\ model_idx = 1
    /\ attempt = 0
    /\ posts = <<>>
    /\ sleeps = 0
    /\ response = PyNone
    /\ ui = <<>>
    /\ log = <<>>
    /\ calls = <<>>
    /\ raised = <<>>
    /\ app2 = App2Idle

\* db = db_connection.connect()
Connect ==
    /\ pc = "connect"
    /\ \E outcome \in {"ok", "client_error", "server_error"} :
         LET r == connect(outcome)
         IN  /\ client' = r.client
             /\ db' = r.db
             /\ ui' = ui \o r.report
             /\ log' = IF outcome = "ok" THEN log ELSE Append(log, "MongoDB connection error")
    /\ pc' = "db_check"
    /\ UNCHANGED app2
    /\ UNCHANGED <<store, available_models, reqVars, genVars, calls, raised>>

\* if db is None: st.error(...); return
DatabaseUnavailable ==
    /\ pc = "db_check"
    /\ db = "None"
    /\ ui' = Append(ui, Show("error", "Failed to connect to database. Please check if MongoDB is running."))
    /\ pc' = "done"
    /\ UNCHANGED app2
    /\ UNCHANGED <<store, client, db, available_models, reqVars, genVars, log, calls, raised>>

\* client_manager = ClientManager(db); name_extractor = NameExtractor()
\* spacy.load raising OSError is reported and re-raised
InitComponents ==
    /\ pc = "db_check"
    /\ db # "None"
    /\ \E load_ok \in BOOLEAN :
         LET r == name_extractor_init(load_ok)
         IN  /\ ui' = IF load_ok THEN ui
                      ELSE Append(ui, Show("error", "Please install the English language model"))
             /\ IF r.tag = "raise"
                THEN /\ raised' = Append(raised, [type |-> r.val, from |-> "NameExtractor.__init__"])
                     /\ pc' = "except"
                ELSE /\ raised' = raised
                     /\ pc' = "init_ollama"
    /\ UNCHANGED app2
    /\ UNCHANGED <<store, client, db, available_models, reqVars, genVars, log, calls>>

\* ollama_client = OllamaClient()
InitOllamaClient ==
    /\ pc = "init_ollama"
    /\ \E ok \in BOOLEAN, tags \in SUBSET ModelNames :
         /\ ok \/ tags = {}
         /\ available_models' = get_available_models(ok, tags)
         /\ log' = IF ok THEN log ELSE Append(log, "Error getting available models")
    /\ pc' = "status"
    /\ UNCHANGED app2
    /\ UNCHANGED <<store, client, db, reqVars, genVars, ui, calls, raised>>

\* if not ollama_client.check_ollama_status(): ...; return
\* then the available models are displayed, or main returns when there are none
CheckStatus ==
    /\ pc = "status"
    /\ \E up \in BOOLEAN :
         IF ~up
         THEN /\ ui' = ui \o << Show("warning", "Ollama service is not running."),
                                Show("info", "To start Ollama, open a terminal and run: ollama serve") >>
              /\ pc' = "finally"
         ELSE IF available_models # {}
         THEN /\ ui' = Append(ui, Show("success", "Ollama is running with available models"))
              /\ pc' = "idle"
         ELSE /\ ui' = Append(ui, Show("warning", "No models available."))
              /\ pc' = "finally"
    /\ UNCHANGED app2
    /\ UNCHANGED <<store, client, db, available_models, reqVars, genVars, log, calls, raised>>

\* user_prompt = st.text_area(...); if st.button("Get Response"): ...
Submit ==
    /\ pc = "idle"
    /\ \E p \in Prompts, pressed \in BOOLEAN :
         /\ user_prompt' = p
         /\ IF ~pressed
            THEN pc' = "finally" /\ ui' = ui
            ELSE IF p.text = ""
            THEN pc' = "finally" /\ ui' = Append(ui, Show("warning", "Please enter a prompt"))
            ELSE pc' = "extract" /\ ui' = ui
    /\ UNCHANGED app2
    /\ UNCHANGED <<store, client, db, available_models, client_name, client_info,
                   genVars, log, calls, raised>>

\* main going on with an empty client_name
NameAbsent_never(name) == FALSE

\* if not client_name
NameAbsent(name) == name = ""

\* extracted_name = name_extractor.extract_person_name(user_prompt)
\* if not client_name: st.error(...); return
Extract ==
    /\ pc = "extract"
    /\ calls' = Append(calls, "extract")
    /\ \E nlp_raises \in BOOLEAN :
         LET r == extract_person_name(user_prompt, nlp_raises)
         IN  /\ log' = IF nlp_raises THEN Append(log, "Name extraction error") ELSE log
             /\ IF r.tag = "raise"
                THEN /\ raised' = Append(raised, [type |-> r.val, from |-> "NameExtractor.extract_person_name"])
                     /\ pc' = "except"
                     /\ UNCHANGED <<client_name, ui>>
                ELSE /\ client_name' = r.val
                     /\ raised' = raised
                     /\ IF NameAbsent(r.val)
                        THEN /\ ui' = Append(ui, Show("error", "Could not extract a valid person name from the prompt"))
                             /\ pc' = "finally"
                        ELSE /\ ui' = ui
                             /\ pc' = "lookup"
    /\ UNCHANGED app2
    /\ UNCHANGED <<store, client, db, available_models, user_prompt, client_info, genVars>>

\* client_info = client_manager.check_client(client_name)
CheckClient ==
    /\ pc = "lookup"
    /\ calls' = Append(calls, "lookup")
    /\ \E find_raises \in BOOLEAN :
         LET r == check_client(store, client_name, find_raises)
         IN  /\ log' = IF find_raises THEN Append(log, "Error querying MongoDB") ELSE log
             /\ IF r.tag = "raise"
                THEN /\ raised' = Append(raised, [type |-> r.val, from |-> "ClientManager.check_client"])
                     /\ pc' = "except"
                     /\ UNCHANGED client_info
                ELSE /\ client_info' = r.val
                     /\ raised' = raised
                     /\ pc' = "generate"
    /\ UNCHANGED app2
    /\ UNCHANGED <<store, client, db, available_models, user_prompt, client_name,
                   genVars, ui>>

\* response = ollama_client.generate_response(user_prompt, client_info):
\* entry, up to the for loop over models_to_try
GenBegin ==
    /\ pc = "generate"
    /\ calls' = Append(calls, "generate")
    /\ gen_info' = client_info
    /\ LET sp == system_prompt_of(client_info)
       IN  IF sp.tag = "raise"
           THEN /\ raised' = Append(raised, [type |-> sp.val, from |-> "OllamaClient.generate_response"])
                /\ pc' = "except"
                /\ UNCHANGED system_prompt
           ELSE /\ system_prompt' = PyStr(sp.val)
                /\ pc' = "gen_loop"
                /\ UNCHANGED raised
    /\ model_idx' = 1
    /\ attempt' = 0
    /\ UNCHANGED app2
    /\ UNCHANGED <<store, client, db, available_models, reqVars, posts, sleeps,
                   response, ui, log>>

\* every candidate model tried, listed by the endpoint or not
ModelUsable_any(model, available) == TRUE

\* if model not in available_models
ModelUsable(model, available) == model \in available

\* one retry budget shared by all the models
LastAttempt_shared(n) == n >= max_retries - 1 \/ Len(posts) >= max_retries

\* the inner for loop ends after this failed attempt
LastAttempt(n) == n >= max_retries - 1

\* if model not in available_models: continue
GenSkipModel ==
    /\ pc = "gen_loop"
    /\ model_idx <= Len(models_to_try)
    /\ ~ModelUsable(models_to_try[model_idx], available_models)
    /\ model_idx' = model_idx + 1
    /\ UNCHANGED app2
    /\ UNCHANGED <<pc, store, client, db, available_models, reqVars, gen_info,
                   system_prompt, attempt, posts, sleeps, response, ui, log, calls, raised>>

\* one pass of the inner for loop: requests.post(...) and what follows it
GenAttempt ==
    /\ pc = "gen_loop"
    /\ model_idx <= Len(models_to_try)
    /\ ModelUsable(models_to_try[model_idx], available_models)
    /\ \E outcome \in PostOutcomes :
         /\ posts' = Append(posts, [model |-> models_to_try[model_idx], reply |-> Reply(outcome)])
         /\ IF PostSucceeds(outcome)
            THEN /\ response' = PyStr(outcome.content)
                 /\ pc' = "present"
                 /\ UNCHANGED <<model_idx, attempt, sleeps>>
            ELSE /\ IF LastAttempt(attempt)
                    THEN model_idx' = model_idx + 1 /\ attempt' = 0 /\ sleeps' = sleeps
                    ELSE model_idx' = model_idx /\ attempt' = attempt + 1 /\ sleeps' = sleeps + retry_delay
                 /\ UNCHANGED <<pc, response>>
    /\ UNCHANGED app2
    /\ UNCHANGED <<store, client, db, available_models, reqVars, gen_info,
                   system_prompt, ui, log, calls, raised>>

\* return self.generate_fallback_response(client_info)
GenFallback ==
    /\ pc = "gen_loop"
    /\ model_idx > Len(models_to_try)
    /\ response' = PyStr(generate_fallback_response(gen_info))
    /\ pc' = "present"
    /\ UNCHANGED app2
    /\ UNCHANGED <<store, client, db, available_models, reqVars, gen_info,
                   system_prompt, model_idx, attempt, posts, sleeps, ui, log, calls, raised>>

\* the "Client Status:" block of main
status_display(name, info) ==
    IF info.exists
    THEN << Show("success", name \o " is a registered client"),
            Show("info", "Email: " \o PyFormat(info.email)) >>
    ELSE << Show("warning", name \o " is not found in our client database") >>

\* st.subheader("Response:") ... down to the end of the with block
Present ==
    /\ pc = "present"
    /\ calls' = Append(calls, "present")
    /\ ui' = ui \o << Show("subheader", "Response:"), Show("write", response.val),
                      Show("subheader", "Client Status:") >>
                \o status_display(client_name, client_info)
    /\ pc' = "finally"
    /\ UNCHANGED app2
    /\ UNCHANGED <<store, client, db, available_models, reqVars, genVars, log, raised>>

\* except Exception as e: logger.error(...); st.error(...)
MainExcept ==
    /\ pc = "except"
    /\ log' = Append(log, "Error in main processing")
    /\ ui' = Append(ui, Show("error", "An error occurred"))
    /\ pc' = "finally"
    /\ UNCHANGED app2
    /\ UNCHANGED <<store, client, db, available_models, reqVars, genVars, calls, raised>>

\* finally: db_connection.close()
MainFinally ==
    /\ pc = "finally"
    /\ client' = close(client)
    /\ pc' = "done"
    /\ UNCHANGED app2
    /\ UNCHANGED <<store, db, available_models, reqVars, genVars, ui, log, calls, raised>>

Next ==
    \/ Connect
    \/ DatabaseUnavailable
    \/ InitComponents
    \/ InitOllamaClient
    \/ CheckStatus
    \/ Submit
    \/ Extract
    \/ CheckClient
    \/ GenBegin
    \/ GenSkipModel
    \/ GenAttempt
    \/ GenFallback
    \/ Present
    \/ MainExcept
    \/ MainFinally

Spec == Init /\ [][Next]_vars

(***************************************************************************)
(* extract_person_name on its own: main at the call of line 235, the       *)
(* prompt drawn from every entity list of up to MaxEnts entities.          *)
(***************************************************************************)
InitExtract ==
    /\ pc = "extract"
    /\ store = <<>>
    /\ client = "open"
    /\ db = "db"
    /\ available_models = {"gemma:2b"}
    /\ user_prompt \in EntPrompts
    /\ client_name = ""
    /\ client_info = PyNone
    /\ gen_info = PyNone
    /\ system_prompt = PyNone
    /\ model_idx = 1
    /\ attempt = 0
    /\ posts = <<>>
    /\ sleeps = 0
    /\ response = PyNone
    /\ ui = <<Show("success", "Ollama is running with available models")>>
    /\ log = <<>>
    /\ calls = <<>>
    /\ raised = <<>>
    /\ app2 = App2Idle

NextExtract == Extract

SpecExtract == InitExtract /\ [][NextExtract]_vars

(***************************************************************************)
(* The function-calling variant (src/app2.py): one run of its main().      *)
(***************************************************************************)
\* what the user may type into "Enter your email:"
UserEmails == {"", "me@corp.com", "boss@corp.com"}

\* documents of the clients collection of meeting_scheduler
App2Clients ==
    { [name |-> "John Doe",  email |-> PyStr("john@x.com")],
      [name |-> "Jane Roe",  email |-> PyNone] }

\* what the first llm.predict and json.loads(response)["client_name"] give
NameReplies ==
    { [kind |-> k, name |-> ""] : k \in {"predict_error", "not_json", "no_client_name"} }
    \cup { [kind |-> "ok", name |-> n] : n \in {"John Doe", "Jane Roe", "Alice Smith"} }

DetailKeys == {"meeting_date", "meeting_time", "duration"}

\* what the second llm.predict and json.loads give: the keys of the dict
DetailReplies ==
    { [kind |-> k, keys |-> {}] : k \in {"predict_error", "not_json"} }
    \cup { [kind |-> "ok", keys |-> ks] : ks \in SUBSET DetailKeys }

\* a tool's _run as main logs it: the tool and what happened in it
Ran(tool, outcome) == [tool |-> tool, outcome |-> outcome]

\* DatabaseTool._run: find_one by exact name; mongo_raises is the store failing
database_tool_run(name, mongo_raises) ==
    IF mongo_raises THEN Raise("PyMongoError")
    ELSE IF \E c \in App2Clients : c.name = name
    THEN Ret([found |-> TRUE,
              email |-> (CHOOSE c \in App2Clients : c.name = name).email])
    ELSE Ret([found |-> FALSE, email |-> PyNone])

\* CalendarTool._run answering True whatever happened
calendar_tool_run_true(outcome) == TRUE

\* CalendarTool._run: True once event.save() is done, False when the
\* authentication fails or anything raises
calendar_tool_run(outcome) == outcome = "saved"

\* EmailTool._run: True once the message is sent, False when SMTP raises
email_tool_run(outcome) == outcome = "sent"

\* if not client_info["found"]
ClientMissing(info) == ~info.found

\* an exception raised inside main's try block
App2Raise(type, tools_now) ==
    [app2 EXCEPT !.pc = "except",
                 !.tools = tools_now,
                 !.raised = Append(@, [type |-> type, at |-> Len(tools_now)])]

App2Show(kind, text) == [app2 EXCEPT !.ui = Append(@, Show(kind, text))]

\* if st.button("Schedule Meeting"): if not user_email: st.error(...); return
A2Submit ==
    /\ app2.pc = "idle"
    /\ \E email \in UserEmails, pressed \in BOOLEAN :
         app2' = IF ~pressed
                 THEN [app2 EXCEPT !.user_email = email, !.pc = "done"]
                 ELSE IF email = ""
                 THEN [App2Show("error", "Please enter your email address")
                          EXCEPT !.user_email = email, !.pc = "done"]
                 ELSE [app2 EXCEPT !.user_email = email, !.pc = "create_llm"]
    /\ UNCHANGED app3Vars

\* llm = create_llm(), outside the try block
A2CreateLlm ==
    /\ app2.pc = "create_llm"
    /\ \E ok \in BOOLEAN :
         app2' = IF ok
                 THEN [app2 EXCEPT !.pc = "predict_name"]
                 ELSE [app2 EXCEPT !.pc = "crashed",
                                   !.raised = Append(@, [type |-> "Exception", at |-> Len(app2.tools)])]
    /\ UNCHANGED app3Vars

\* response = llm.predict(...); json.loads(response)["client_name"]
A2PredictName ==
    /\ app2.pc = "predict_name"
    /\ \E reply \in NameReplies :
         app2' = IF reply.kind = "ok"
                 THEN [app2 EXCEPT !.client_name = reply.name, !.pc = "query_db"]
                 ELSE App2Raise(reply.kind, app2.tools)
    /\ UNCHANGED app3Vars

\* client_info = db_tool._run(...); if not client_info["found"]: ...; return
A2QueryDatabase ==
    /\ app2.pc = "query_db"
    /\ \E mongo_raises \in BOOLEAN :
         LET r == database_tool_run(app2.client_name, mongo_raises)
         IN  app2' =
               IF r.tag = "raise"
               THEN App2Raise(r.val, Append(app2.tools, Ran("DatabaseTool", "error")))
               ELSE IF ClientMissing(r.val)
               THEN [App2Show("error", "Client not found in database")
                        EXCEPT !.client_info = r.val,
                               !.tools = Append(@, Ran("DatabaseTool", IF r.val.found THEN "found" ELSE "not_found")),
                               !.pc = "done"]
               ELSE [app2 EXCEPT !.client_info = r.val,
                                 !.tools = Append(@, Ran("DatabaseTool", IF r.val.found THEN "found" ELSE "not_found")),
                                 !.pc = "predict_details"]
    /\ UNCHANGED app3Vars

\* meeting_details = json.loads(llm.predict(...))
A2PredictDetails ==
    /\ app2.pc = "predict_details"
    /\ \E reply \in DetailReplies :
         app2' = IF reply.kind = "ok"
                 THEN [app2 EXCEPT !.meeting_details = [tag |-> "dict", keys |-> reply.keys],
                                   !.pc = "calendar"]
                 ELSE App2Raise(reply.kind, app2.tools)
    /\ UNCHANGED app3Vars

\* calendar_success = calendar_tool._run(...); if calendar_success: ... else: ...
A2CreateEvent ==
    /\ app2.pc = "calendar"
    /\ \E outcome \in {"saved", "auth_failed", "error"} :
         app2' =
           IF ~({"meeting_date", "meeting_time"} \subseteq app2.meeting_details.keys)
           THEN App2Raise("KeyError", app2.tools)
           ELSE IF calendar_tool_run(outcome)
           THEN [App2Show("success", "Calendar event created successfully")
                    EXCEPT !.tools = Append(@, Ran("CalendarTool", outcome)),
                           !.pc = "email"]
           ELSE [App2Show("error", "Failed to create calendar event")
                    EXCEPT !.tools = Append(@, Ran("CalendarTool", outcome)),
                           !.pc = "done"]
    /\ UNCHANGED app3Vars

\* email_body = ...; email_success = email_tool._run(...)
A2SendEmail ==
    /\ app2.pc = "email"
    /\ \E outcome \in {"sent", "smtp_error"} :
         app2' =
           IF "duration" \notin app2.meeting_details.keys
           THEN App2Raise("KeyError", app2.tools)
           ELSE IF email_tool_run(outcome)
           THEN [App2Show("success", "Meeting invitation sent successfully")
                    EXCEPT !.tools = Append(@, Ran("EmailTool", outcome)),
                           !.pc = "done"]
           ELSE [App2Show("error", "Failed to send email invitation")
                    EXCEPT !.tools = Append(@, Ran("EmailTool", outcome)),
                           !.pc = "done"]
    /\ UNCHANGED app3Vars

\* except Exception as e: st.error(...)
A2Except ==
    /\ app2.pc = "except"
    /\ app2' = [App2Show("error", "Error processing request") EXCEPT !.pc = "done"]
    /\ UNCHANGED app3Vars

InitApp2 ==
    /\ pc = "connect"
    /\ store = <<>>
    /\ client = "absent"
    /\ db = "None"
    /\ available_models = {}
    /\ user_prompt = [text |-> "", ents |-> <<>>]
    /\ client_name = ""
    /\ client_info = PyNone
    /\ gen_info = PyNone
    /\ system_prompt = PyNone
    /\ model_idx = 1
    /\ attempt = 0
    /\ posts = <<>>
    /\ sleeps = 0
    /\ response = PyNone
    /\ ui = <<>>
    /\ log = <<>>
    /\ calls = <<>>
    /\ raised = <<>>
    /\ app2 = App2Idle

NextApp2 ==
    \/ A2Submit
    \/ A2CreateLlm
    \/ A2PredictName
    \/ A2QueryDatabase
    \/ A2PredictDetails
    \/ A2CreateEvent
    \/ A2SendEmail
    \/ A2Except

SpecApp2 == InitApp2 /\ [][NextApp2]_vars

TypeOK ==
    /\ pc \in {"connect", "db_check", "init_ollama", "status", "idle", "extract", "lookup",
               "generate", "gen_loop", "present", "except", "finally", "done"}
    /\ client \in {"absent", "open", "closed"}
    /\ available_models \subseteq ModelNames
    /\ model_idx \in 1..(Len(models_to_try) + 1)
    /\ attempt \in 0..(max_retries - 1)
    /\ sleeps <= retry_delay * Len(posts)

(***************************************************************************)
(* Properties                                                              *)
(***************************************************************************)
InSeq(x, seq) == \E i \in 1..Len(seq) : seq[i] = x

Shown(kind, text) == InSeq(Show(kind, text), ui)

\* the case-insensitive similarity of the i-th stored record and the candidate
Similarity(i) == ratio(lower(store[i].name), lower(client_name))

Pipeline == <<"extract", "lookup", "generate", "present">>

\* generate_response was called and is over (it returned or raised)
GenerateOver == InSeq("generate", calls) /\ pc \in {"present", "except", "finally", "done"}

\* C1: after a lookup that read the store without error, exists is true
\* exactly when some stored record scores above 90 against the candidate
\* (case-insensitively; a best score of exactly 90 gives false), and the
\* returned email is the email of a record with the maximum score.
C1_LookupThreshold ==
    (pc = "generate" /\ ~InSeq("Error querying MongoDB", log)) =>
        /\ client_name # ""
        /\ client_info.exists <=> \E i \in 1..Len(store) : Similarity(i) > 90
        /\ client_info.exists =>
             \E i \in 1..Len(store) :
                /\ \A j \in 1..Len(store) : Similarity(j) <= Similarity(i)
                /\ client_info.email = store[i].email

\* a found client whose best record scores 95 while another scores exactly 90
C1_Witness ==
    /\ pc = "generate"
    /\ ~InSeq("Error querying MongoDB", log)
    /\ client_info.exists
    /\ \E i \in 1..Len(store) : Similarity(i) = 90
    /\ \A i \in 1..Len(store) : Similarity(i) < 100

\* C2: generate_response always returns a non-empty string, whatever the
\* prompt, the lookup result, the available models and the outcomes of the
\* completion calls.
C2_AlwaysNonEmpty ==
    GenerateOver => (~IsNone(response) /\ response.val # "")

\* C2, for the calls that do return: the string returned is not empty.
C2_ReturnedTextNonEmpty ==
    (pc = "present") => response.val # ""

PostsTo(m) == Cardinality({i \in 1..Len(posts) : posts[i].model = models_to_try[m]})

\* C3: every available candidate model the loop has gone past without a
\* successful completion received exactly 3 completion attempts of its own,
\* whatever the earlier models consumed; the model in progress never has
\* more than 3.
C3_RetryBudget ==
    \A m \in 1..Len(models_to_try) :
        /\ (model_idx > m /\ models_to_try[m] \in available_models) => PostsTo(m) = 3
        /\ PostsTo(m) <= 3

\* all three candidates available and failing: 9 attempts, then the fallback
C3_Witness ==
    /\ pc = "done"
    /\ Len(posts) = 9
    /\ \A m \in 1..Len(models_to_try) : PostsTo(m) = 3
    /\ response = PyStr(generate_fallback_response(client_info))

PreferenceRank(model) ==
    CHOOSE r \in 1..3 : <<"gemma:2b", "llama2", "mistral">>[r] = model

\* C4: completion calls go to the candidates in the order gemma:2b, llama2,
\* mistral, never to a model outside the available set recorded at
\* construction, and the first call that delivers a text is the last call
\* made: its text is what generate_response returns.
C4_PreferenceOrder ==
    /\ \A i, j \in 1..Len(posts) :
          i < j => PreferenceRank(posts[i].model) <= PreferenceRank(posts[j].model)
    /\ \A i \in 1..Len(posts) : posts[i].model \in available_models
    /\ \A i \in 1..Len(posts) :
          ~IsNone(posts[i].reply) =>
             /\ i = Len(posts)
             /\ pc # "gen_loop"
             /\ response = posts[i].reply

\* gemma:2b fails three times, llama2 is not available, mistral answers
C4_Witness ==
    /\ pc = "done"
    /\ Len(posts) = 4
    /\ posts[1].model = "gemma:2b"
    /\ posts[4].model = "mistral"
    /\ "llama2" \notin available_models
    /\ response = PyStr("Certainly, I will schedule that meeting.")
    /\ posts[4].reply = response

\* the invitation-to-register text, naming no stored email
InvitesRegistration(s) ==
    /\ Contains(s, "register as a new client")
    /\ \A c \in ClientPool : ~IsNone(c.email) => ~Contains(s, c.email.val)

\* C5: when no completion call delivered a text (every attempt failed, or no
\* candidate model is available), generate_response returns the fallback
\* of the lookup outcome: a text naming the client's email when exists is
\* true, the invitation to register when it is false.
C5_FallbackMatchesLookup ==
    (GenerateOver /\ \A i \in 1..Len(posts) : IsNone(posts[i].reply)) =>
        /\ ~IsNone(response)
        /\ response.val = generate_fallback_response(gen_info)
        /\ gen_info.exists =>
             (~IsNone(gen_info.email) /\ Contains(response.val, gen_info.email.val))
        /\ ~gen_info.exists => InvitesRegistration(response.val)

\* C6: when extraction yields no name, the request is rejected with an error
\* shown to the user, and neither check_client nor generate_response is
\* invoked.
C6_RejectedNoCalls ==
    (calls # <<>> /\ client_name = "") =>
        /\ pc \in {"finally", "done"}
        /\ calls = <<"extract">>
        /\ ui[Len(ui)] = Show("error", "Could not extract a valid person name from the prompt")
        /\ posts = <<>>
        /\ client_info = PyNone
        /\ response = PyNone
        /\ raised = <<>>

\* a prompt whose entities hold no person, rejected
C6_Witness ==
    /\ pc = "done"
    /\ user_prompt.text = "Schedule something tomorrow"
    /\ calls = <<"extract">>
    /\ client = "closed"

\* C7: a request with an extracted name runs extract, lookup, generate and
\* present, each once and in this order; generation gets the lookup result of
\* the request and the indicator shown equals its exists flag.
C7_LinearPipeline ==
    (pc = "done" /\ calls # <<>> /\ client_name # "") =>
        /\ calls = Pipeline
        /\ gen_info = client_info
        /\ client_info.exists <=> Shown("success", client_name \o " is a registered client")
        /\ ~client_info.exists <=>
             Shown("warning", client_name \o " is not found in our client database")

\* C8: a data-store error during check_client is caught there and turned
\* into {exists: False, email: None}; nothing reaches main's except clause
\* and the request goes on to generation and presentation as not found.
C8_StoreErrorNotFound ==
    InSeq("Error querying MongoDB", log) =>
        /\ client_info = NotFound
        /\ raised = <<>>
        /\ pc \in {"generate", "gen_loop", "present", "finally", "done"}
        /\ pc = "done" =>
             /\ calls = Pipeline
             /\ ~IsNone(response)
             /\ Shown("write", response.val)
             /\ Shown("warning", client_name \o " is not found in our client database")

\* the store fails although it holds the very name asked for
C8_Witness ==
    /\ pc = "done"
    /\ InSeq("Error querying MongoDB", log)
    /\ \E i \in 1..Len(store) : Similarity(i) = 100
    /\ calls = Pipeline

\* C9: when connect fails, it returns None, the failure is shown to the
\* user, main ends without an exception, and no name extraction, lookup or
\* completion call is made in that run.
C9_DatabaseUnavailable ==
    InSeq("MongoDB connection error", log) =>
        /\ db = "None"
        /\ pc \in {"db_check", "done"}
        /\ Shown("error", "Database connection error")
        /\ pc = "done" =>
             Shown("error", "Failed to connect to database. Please check if MongoDB is running.")
        /\ calls = <<>>
        /\ posts = <<>>
        /\ raised = <<>>

\* the server check failed after the MongoClient was created
C9_Witness ==
    /\ pc = "done"
    /\ InSeq("MongoDB connection error", log)
    /\ client = "open"
    /\ db = "None"

\* C10: no exception raised inside NameExtractor, ClientManager or
\* OllamaClient crosses the component's boundary into main.
C10_NoExceptionCrosses == raised = <<>>

\* every character of s is one of the characters of allowed
OnlyFrom(s, allowed) == \A k \in 1..Len(s) : Contains(allowed, Char(s, k))

\* the entities of the prompt, once extract_person_name has run without the
\* NER call failing
Extracted == pc # "extract" /\ ~InSeq("Name extraction error", log)

\* the first index of the prompt's entities that satisfies Q, 0 when none does
FirstEnt(Q(_)) ==
    IF \E i \in 1..Len(user_prompt.ents) : Q(i)
    THEN CHOOSE i \in 1..Len(user_prompt.ents) :
            Q(i) /\ \A j \in 1..(i - 1) : ~Q(j)
    ELSE 0

\* a PERSON entity whose stripped text is not empty and is letters,
\* whitespace, apostrophes and hyphens
StrippedPerson(i) ==
    /\ user_prompt.ents[i].label = "PERSON"
    /\ strip(user_prompt.ents[i].text) # ""
    /\ OnlyFrom(strip(user_prompt.ents[i].text), LowerAlpha \o UpperAlpha \o " \t\n\r'-")

TopRecords ==
    {i \in 1..Len(store) : \A j \in 1..Len(store) : Similarity(j) <= Similarity(i)}

\* C12: when several stored records share the maximum score and it exceeds
\* 90, the email returned is that of the one that comes first in the order
\* in which the store lists its records.
C12_FirstWinsTies ==
    (/\ pc = "generate"
     /\ ~InSeq("Error querying MongoDB", log)
     /\ Cardinality(TopRecords) >= 2
     /\ \E i \in TopRecords : Similarity(i) > 90) =>
        /\ client_info.exists
        /\ \E i \in TopRecords :
              /\ \A j \in TopRecords : i <= j
              /\ client_info.email = store[i].email

\* two records tied at 95 with different emails: the first one's is returned
C12_Witness ==
    /\ pc = "generate"
    /\ ~InSeq("Error querying MongoDB", log)
    /\ Len(store) = 2
    /\ Similarity(1) = 95
    /\ Similarity(2) = 95
    /\ store[1].email # store[2].email
    /\ client_info = [exists |-> TRUE, email |-> store[1].email]

\* C13: a run of main in which connect created a MongoClient has called
\* close() on it by the time main is left, on every exit path.
C13_ClientClosedAtExit ==
    pc = "done" => client # "open"

\* C13, for the exit paths inside main's try block only: the client is closed.
C13_ClosedAfterTry ==
    (pc = "done" /\ db # "None") => client = "closed"

ToolRuns(tool) == {i \in 1..Len(app2.tools) : app2.tools[i].tool = tool}

\* C14: in app2's main no tool runs when the user email is empty;
\* CalendarTool runs only after DatabaseTool found the client; EmailTool runs
\* only after CalendarTool created the event, so no invitation is sent for a
\* client that was not found or an event that was not created; and once a
\* step has raised an exception no later step runs.
C14_GatedSideEffects ==
    /\ (app2.pc # "idle" /\ app2.user_email = "") =>
          (app2.tools = <<>> /\ app2.pc = "done")
    /\ \A i \in ToolRuns("CalendarTool") :
          \E j \in 1..(i - 1) : app2.tools[j] = Ran("DatabaseTool", "found")
    /\ \A i \in ToolRuns("EmailTool") :
          /\ \E j \in 1..(i - 1) : app2.tools[j] = Ran("CalendarTool", "saved")
          /\ \E j \in 1..(i - 1) : app2.tools[j] = Ran("DatabaseTool", "found")
    /\ \A i \in 1..Len(app2.tools) :
          app2.tools[i].outcome \in {"not_found", "error", "auth_failed"} => i = Len(app2.tools)
    /\ app2.raised # <<>> =>
          /\ Len(app2.raised) = 1
          /\ Len(app2.tools) = app2.raised[1].at
          /\ app2.pc \in {"except", "done", "crashed"}

\* the three tools run in order and the invitation is sent
C14_Witness ==
    /\ app2.pc = "done"
    /\ app2.user_email = "me@corp.com"
    /\ app2.tools = << Ran("DatabaseTool", "found"), Ran("CalendarTool", "saved"),
                       Ran("EmailTool", "sent") >>
    /\ app2.raised = <<>>

====
